---- MODULE Spec2Model ----
(***************************************************************************)
(* Model of dashboard_acompanhamento_streamlit.py: one run of the          *)
(* Streamlit script (upload, load_data, the empty-table stop, the sidebar  *)
(* filters, calculate_metrics, the delivered chart, the export).           *)
(*                                                                         *)
(* Values.  A cell of a DataFrame is a record [k, s, v]:                   *)
(*   k = "null"  NaN / None / NaT (everything pd.isna accepts)             *)
(*   k = "str"   a Python str, s its characters                            *)
(*   k = "num"   a finite number, v its value in tenths (fixed point)      *)
(*   k = "inf"   a float infinity, v its sign (1 or -1)                    *)
(*   k = "date"  a Timestamp, v = year*10000 + month*100 + day             *)
(* A table is [cols |-> sequence of column names, rows |-> sequence of     *)
(* functions from the column names to cells].                              *)
(***************************************************************************)
EXTENDS Integers, Sequences, FiniteSets, TLC

VARIABLES
    pc,             \* position of the script run
    uploaded_file,  \* value of st.file_uploader (NoFile = None)
    pos,            \* file pointer of the upload buffer
    attempts,       \* the read_csv attempts load_data made, in order
    encoding,       \* the encoding whose read_csv result was used ("" = none)
    text,           \* the decoded characters of the upload's free text
    df,             \* the script's DataFrame
    messages,       \* st.error / st.info messages shown, in order
    df_in,          \* the table as it was when calculate_metrics was called
    metrics,        \* the MetricsSnapshot (NoMetrics before calculate_metrics)
    periodo,        \* the range applied by the period filter (<<>> = none)
    sidebar,        \* the selectbox values and the table the period step got
    chart,          \* the delivered / not delivered counts (NoChart = not built)
    export,         \* the columns of the two downloads (NoExport = not offered)
    fault           \* the function an exception escaped from ("" = none)

vars == <<pc, uploaded_file, pos, attempts, encoding, text, df, messages,
          df_in, metrics, periodo, sidebar, chart, export, fault>>

----------------------------------------------------------------------------
(* Bounds of the model *)

\* longest free text of an upload, in bytes
MaxBytes == 2
\* most rows of an uploaded table
MaxRows == 2
\* most rows of a table handed directly to calculate_metrics
MaxMetricRows == 5

----------------------------------------------------------------------------
(* Cells *)

Null == [k |-> "null", s |-> <<>>, v |-> 0]
Str(chars) == [k |-> "str", s |-> chars, v |-> 0]
Num(tenths) == [k |-> "num", s |-> <<>>, v |-> tenths]
Inf == [k |-> "inf", s |-> <<>>, v |-> 1]
NegInf == [k |-> "inf", s |-> <<>>, v |-> 0 - 1]
Date(ymd) == [k |-> "date", s |-> <<>>, v |-> ymd]

isna(c) == c.k = "null"
notna(c) == ~isna(c)

Digits == {"0", "1", "2", "3", "4", "5", "6", "7", "8", "9"}

DigitVal(c) ==
    CASE c = "0" -> 0 [] c = "1" -> 1 [] c = "2" -> 2 [] c = "3" -> 3
      [] c = "4" -> 4 [] c = "5" -> 5 [] c = "6" -> 6 [] c = "7" -> 7
      [] c = "8" -> 8 [] c = "9" -> 9

AllDigits(s) == \A i \in 1..Len(s) : s[i] \in Digits

RECURSIVE IntVal(_)
IntVal(ds) ==
    IF ds = <<>> THEN 0
    ELSE IntVal(SubSeq(ds, 1, Len(ds) - 1)) * 10 + DigitVal(ds[Len(ds)])

\* s split at every character of seps (str.split with several separators)
RECURSIVE SplitOn(_, _)
SplitOn(s, seps) ==
    IF s = <<>> THEN << <<>> >>
    ELSE LET r == SplitOn(Tail(s), seps)
         IN  IF Head(s) \in seps THEN << <<>> >> \o r
             ELSE << <<Head(s)>> \o Head(r) >> \o Tail(r)

----------------------------------------------------------------------------
(* pd.to_numeric(..., errors="coerce") *)

\* A str as a number: [sign] digits [. digits], or [sign] inf.  Anything
\* else is NaN.  The value keeps one fractional digit (tenths).
ParseNumber(s) ==
    LET signed == s # <<>> /\ Head(s) \in {"-", "+"}
        neg == s # <<>> /\ Head(s) = "-"
        body == IF signed THEN Tail(s) ELSE s
        parts == SplitOn(body, {"."})
        ip == parts[1]
        fp == IF Len(parts) = 2 THEN parts[2] ELSE <<>>
        mag == IntVal(ip) * 10 + (IF fp = <<>> THEN 0 ELSE DigitVal(fp[1]))
    IN  IF body = <<"i", "n", "f">> THEN (IF neg THEN NegInf ELSE Inf)
        ELSE IF /\ Len(parts) <= 2
                /\ AllDigits(ip) /\ AllDigits(fp)
                /\ (ip # <<>> \/ fp # <<>>)
             THEN Num(IF neg THEN 0 - mag ELSE mag)
             ELSE Null

to_numeric(c) ==
    CASE c.k = "str" -> ParseNumber(c.s)
      [] c.k = "date" -> Num(c.v * 10)
      [] OTHER -> c

----------------------------------------------------------------------------
(* pd.to_datetime(..., errors="coerce", dayfirst=...) *)

IsLeap(y) == (y % 4 = 0 /\ y % 100 # 0) \/ y % 400 = 0

DaysInMonth(y, m) ==
    IF m = 2 THEN (IF IsLeap(y) THEN 29 ELSE 28)
    ELSE IF m \in {4, 6, 9, 11} THEN 30 ELSE 31

ValidDate(y, m, d) == m \in 1..12 /\ d >= 1 /\ d <= DaysInMonth(y, m)

\* A str of three digit groups separated by "/" or "-".  A leading group of
\* four digits is the year (ISO, dayfirst does not apply); otherwise the
\* year comes last and dayfirst decides which of the first two groups is
\* the day, the other order being tried when the preferred one has no such
\* month.  Anything else is NaT.
ParseDate(s, dayfirst) ==
    LET g == SplitOn(s, {"/", "-"})
        ok3 == /\ Len(g) = 3
               /\ \A i \in 1..3 : g[i] # <<>> /\ AllDigits(g[i])
        iso == Len(g[1]) = 4
        a == IntVal(g[1])
        b == IntVal(g[2])
        c == IntVal(g[3])
        y == IF iso THEN a ELSE c
        first == IF iso THEN b ELSE a
        second == IF iso THEN c ELSE b
        dmy == IF iso THEN FALSE
               ELSE IF dayfirst THEN second <= 12 \/ first > 12
               ELSE first > 12 /\ second <= 12
        m == IF dmy THEN second ELSE first
        d == IF dmy THEN first ELSE second
    IN  IF ok3 /\ (iso \/ Len(g[3]) = 4) /\ ValidDate(y, m, d)
        THEN Date(y * 10000 + m * 100 + d)
        ELSE Null

to_datetime(c, dayfirst) ==
    CASE c.k = "str" -> ParseDate(c.s, dayfirst)
      [] c.k = "num" -> Date(19700101)  \* nanoseconds since the Unix epoch
      [] c.k = "inf" -> Null
      [] OTHER -> c

----------------------------------------------------------------------------
(* Tables *)

EmptyDF == [cols |-> <<>>, rows |-> <<>>]

Range(seq) == {seq[i] : i \in 1..Len(seq)}

HasCol(t, c) == c \in Range(t.cols)

\* len(df.columns) == 0 in place of df.empty
IsEmpty_NoColumns(t) == Len(t.cols) = 0

\* DataFrame.empty: no rows or no columns
IsEmpty(t) == Len(t.cols) = 0 \/ Len(t.rows) = 0

Column(t, c) == [i \in 1..Len(t.rows) |-> t.rows[i][c]]

\* t with column c replaced by F applied to each of its cells
MapCol(t, c, F(_)) ==
    [t EXCEPT !.rows = [i \in 1..Len(t.rows) |-> [t.rows[i] EXCEPT ![c] = F(@)]]]

\* t with the rows that satisfy Keep, in order (boolean indexing)
Where(t, Keep(_)) == [t EXCEPT !.rows = SelectSeq(t.rows, Keep)]

\* the column holds Python objects (dtype object): some cell is a str
IsObject(t, c) == \E i \in 1..Len(t.rows) : t.rows[i][c].k = "str"

\* cells of every row only for the columns of cols
Project(t, cols) ==
    [cols |-> cols,
     rows |-> [i \in 1..Len(t.rows) |-> [c \in Range(cols) |-> t.rows[i][c]]]]

----------------------------------------------------------------------------
(* Character encodings *)

encodings == <<"utf-8", "latin-1", "iso-8859-1", "cp1252">>

\* the bytes 0x80..0x9F that Windows-1252 maps away from their own value
Cp1252High ==
    [b \in 128..159 |->
        CASE b = 128 -> 8364 [] b = 130 -> 8218 [] b = 131 -> 402
          [] b = 132 -> 8222 [] b = 133 -> 8230 [] b = 134 -> 8224
          [] b = 135 -> 8225 [] b = 136 -> 710 [] b = 137 -> 8240
          [] b = 138 -> 352 [] b = 139 -> 8249 [] b = 140 -> 338
          [] b = 142 -> 381 [] b = 145 -> 8216 [] b = 146 -> 8217
          [] b = 147 -> 8220 [] b = 148 -> 8221 [] b = 149 -> 8226
          [] b = 150 -> 8211 [] b = 151 -> 8212 [] b = 152 -> 732
          [] b = 153 -> 8482 [] b = 154 -> 353 [] b = 155 -> 8250
          [] b = 156 -> 339 [] b = 158 -> 382 [] b = 159 -> 376
          [] OTHER -> 0 - 1]

\* Decoders give [ok, chars]: chars are the code points, ok = FALSE is a
\* UnicodeDecodeError.
Continuation(b) == b >= 128 /\ b <= 191

RECURSIVE DecodeUtf8(_)
DecodeUtf8(bs) ==
    IF bs = <<>> THEN [ok |-> TRUE, chars |-> <<>>]
    ELSE
      LET b == Head(bs)
          n == IF b < 128 THEN 1
               ELSE IF b >= 194 /\ b <= 223 THEN 2
               ELSE IF b >= 224 /\ b <= 239 THEN 3
               ELSE 0
          wellformed == /\ n > 0
                        /\ Len(bs) >= n
                        /\ \A i \in 2..n : Continuation(bs[i])
                        /\ (b = 224 => bs[2] >= 160)
                        /\ (b = 237 => bs[2] <= 159)
          cp == IF n = 1 THEN b
                ELSE IF n = 2 THEN (b - 192) * 64 + (bs[2] - 128)
                ELSE (b - 224) * 4096 + (bs[2] - 128) * 64 + (bs[3] - 128)
      IN  IF ~wellformed THEN [ok |-> FALSE, chars |-> <<>>]
          ELSE LET rest == DecodeUtf8(SubSeq(bs, n + 1, Len(bs)))
               IN  [ok |-> rest.ok,
                    chars |-> IF rest.ok THEN <<cp>> \o rest.chars ELSE <<>>]

DecodeLatin1(bs) == [ok |-> TRUE, chars |-> bs]

DecodeCp1252(bs) ==
    LET cp(b) == IF b \in DOMAIN Cp1252High THEN Cp1252High[b] ELSE b
    IN  IF \E i \in 1..Len(bs) : cp(bs[i]) < 0
        THEN [ok |-> FALSE, chars |-> <<>>]
        ELSE [ok |-> TRUE, chars |-> [i \in 1..Len(bs) |-> cp(bs[i])]]

Decode(enc, bs) ==
    CASE enc = "utf-8" -> DecodeUtf8(bs)
      [] enc \in {"latin-1", "iso-8859-1"} -> DecodeLatin1(bs)
      [] enc = "cp1252" -> DecodeCp1252(bs)

----------------------------------------------------------------------------
(* Uploaded files *)

(* An upload is [name, bytes, malformed, table]:                           *)
(*   name       the characters of the file name                            *)
(*   bytes      the bytes of the file's free text (what an encoding has to *)
(*              decode; the delimiters and the digits are ASCII in all of  *)
(*              the four encodings)                                        *)
(*   malformed  the parser rejects the file's structure whatever the       *)
(*              encoding (a CSV row with too many fields, a corrupt        *)
(*              workbook)                                                  *)
(*   table      the grid the file holds: str cells in a CSV ("" = an empty *)
(*              field), typed cells in a workbook                          *)
NoFile == [name |-> <<>>, bytes |-> <<>>, malformed |-> FALSE, table |-> EmptyDF]

\* length of the upload buffer: the free text, the header names, the cells
Size(f) == Len(f.bytes) + Len(f.table.cols) * (1 + Len(f.table.rows))

LowerChar(c) ==
    CASE c = "C" -> "c" [] c = "S" -> "s" [] c = "V" -> "v"
      [] c = "X" -> "x" [] c = "L" -> "l" [] c = "T" -> "t"
      [] OTHER -> c

\* uploaded_file.name.split(".")[-1].lower()
file_extension(f) ==
    LET parts == SplitOn(f.name, {"."})
        last == parts[Len(parts)]
    IN  [i \in 1..Len(last) |-> LowerChar(last[i])]

\* the strings read_csv reads as NaN
NaStrings ==
    {<<>>, <<"N", "A">>, <<"N", "/", "A">>, <<"N", "a", "N">>,
     <<"n", "u", "l", "l">>}

\* read_csv's typing of the text grid: an NA string is NaN, and a column
\* whose other cells are all numbers is a numeric column
InferCsv(raw) ==
    LET na(c) == IF c.k = "str" /\ c.s \in NaStrings THEN Null ELSE c
        numeric(col) ==
            \A i \in 1..Len(raw.rows) :
                LET c == na(raw.rows[i][col])
                IN  isna(c) \/ notna(to_numeric(c))
    IN  [raw EXCEPT !.rows =
            [i \in 1..Len(raw.rows) |->
                [col \in Range(raw.cols) |->
                    IF numeric(col) THEN to_numeric(na(raw.rows[i][col]))
                    ELSE na(raw.rows[i][col])]]]

\* pd.read_csv(uploaded_file, encoding=enc, sep=";") with the file pointer
\* at `at`: [raised, df, chars].  It reads from the pointer to the end.
read_csv(f, enc, at) ==
    LET d == Decode(enc, f.bytes)
        fail(e) == [raised |-> e, df |-> EmptyDF, chars |-> <<>>]
    IN  IF at >= Size(f) THEN fail("EmptyDataError")
        ELSE IF ~d.ok THEN fail("UnicodeDecodeError")
        ELSE IF f.malformed THEN fail("ParserError")
        ELSE [raised |-> "", df |-> InferCsv(f.table), chars |-> d.chars]

\* pd.read_excel(uploaded_file): [raised, df, chars]
read_excel(f) ==
    IF f.malformed
    THEN [raised |-> "BadZipFile", df |-> EmptyDF, chars |-> <<>>]
    ELSE [raised |-> "", df |-> f.table, chars |-> <<>>]

----------------------------------------------------------------------------
(* load_data *)

NaoInformado ==
    Str(<<"N", "a", "o", " ", "i", "n", "f", "o", "r", "m", "a", "d", "o">>)

fillna(c, value) == IF isna(c) THEN value ELSE c

\* df[col] = pd.to_datetime(df[col], errors="coerce", dayfirst=True)
ParseDateColumn(t, col) ==
    IF HasCol(t, col) THEN MapCol(t, col, LAMBDA c : to_datetime(c, TRUE)) ELSE t

\* the conversion without the .fillna(0)
NormalizeQuantidade_NoFill(t) ==
    IF HasCol(t, "QuantidadeProduto")
    THEN MapCol(t, "QuantidadeProduto", LAMBDA c : to_numeric(c))
    ELSE t

\* df["QuantidadeProduto"] = pd.to_numeric(..., errors="coerce"), then
\* .fillna(0)
NormalizeQuantidade(t) ==
    IF HasCol(t, "QuantidadeProduto")
    THEN MapCol(t, "QuantidadeProduto", LAMBDA c : fillna(to_numeric(c), Num(0)))
    ELSE t

\* df.fillna("Não informado") on every column, whatever its dtype
FillTextColumns_AllColumns(t) ==
    [t EXCEPT !.rows =
        [i \in 1..Len(t.rows) |->
            [col \in Range(t.cols) |-> fillna(t.rows[i][col], NaoInformado)]]]

\* df[df_text_cols] = df[df_text_cols].fillna("Não informado"), df_text_cols
\* being the columns of dtype object
FillTextColumns(t) ==
    [t EXCEPT !.rows =
        [i \in 1..Len(t.rows) |->
            [col \in Range(t.cols) |->
                IF IsObject(t, col) THEN fillna(t.rows[i][col], NaoInformado)
                ELSE t.rows[i][col]]]]

\* the "Tratamento de dados" block
Normalize(t) ==
    FillTextColumns(
        NormalizeQuantidade(
            ParseDateColumn(ParseDateColumn(t, "DataPedido"), "PrevisaoEntrega")))

\* the except branch without uploaded_file.seek(0)
SeekAfterFailure_NoSeek(at) == at

\* where the file pointer is when the next attempt starts: the except
\* branch rewinds the buffer
SeekAfterFailure(at) == 0

\* The loop over the encodings from the i-th on, the pointer at `at`:
\* [df, found, encoding, chars, pos, attempts].  The bare except swallows
\* whatever read_csv raised.
RECURSIVE TryEncodings(_, _, _, _)
TryEncodings(f, i, at, log) ==
    IF i > Len(encodings)
    THEN [found |-> FALSE, df |-> EmptyDF, encoding |-> "", chars |-> <<>>,
          pos |-> at, attempts |-> log]
    ELSE LET r == read_csv(f, encodings[i], at)
             entry == [encoding |-> encodings[i], from |-> at, raised |-> r.raised]
         IN  IF r.raised = ""
             THEN [found |-> TRUE, df |-> r.df, encoding |-> encodings[i],
                   chars |-> r.chars, pos |-> Size(f),
                   attempts |-> Append(log, entry)]
             ELSE TryEncodings(f, i + 1, SeekAfterFailure(Size(f)),
                               Append(log, entry))

\* What load_data's result looks like: the table returned, the messages
\* shown with st.error, the exception leaving the function ("" = none), and
\* the trace of the decoding.
Outcome(t, errs, exc, dec) ==
    [df |-> t, errors |-> errs, exc |-> exc, encoding |-> dec.encoding,
     chars |-> dec.chars, pos |-> dec.pos, attempts |-> dec.attempts]

NoDecoding(at) == [encoding |-> "", chars |-> <<>>, pos |-> at, attempts |-> <<>>]

\* the body of the try block
LoadBody(f, at) ==
    LET ext == file_extension(f)
    IN  IF ext = <<"c", "s", "v">>
        THEN LET dec == TryEncodings(f, 1, at, <<>>)
             IN  IF ~dec.found
                 THEN Outcome(EmptyDF, <<>>, "Nao foi possivel decodificar o arquivo CSV com os encodings tentados.", dec)
                 ELSE Outcome(Normalize(dec.df), <<>>, "", dec)
        ELSE IF ext \in {<<"x", "l", "s">>, <<"x", "l", "s", "x">>}
        THEN LET r == read_excel(f)
                 dec == [NoDecoding(Size(f)) EXCEPT !.chars = r.chars]
             IN  IF r.raised # ""
                 THEN Outcome(EmptyDF, <<>>, r.raised, dec)
                 ELSE Outcome(Normalize(r.df), <<>>, "", dec)
        ELSE Outcome(EmptyDF, <<"Formato de arquivo nao suportado">>, "",
                     NoDecoding(at))

\* a handler that catches only the "could not decode" Exception of the CSV
\* branch
ExceptException_OnlyDecode(r) ==
    IF r.exc # "" /\ r.exc # "BadZipFile"
    THEN [r EXCEPT !.df = EmptyDF,
                   !.errors = Append(@, "Erro ao carregar dados"),
                   !.exc = ""]
    ELSE r

\* except Exception as e: st.error(...); return pd.DataFrame()
ExceptException(r) ==
    IF r.exc # ""
    THEN [r EXCEPT !.df = EmptyDF,
                   !.errors = Append(@, "Erro ao carregar dados"),
                   !.exc = ""]
    ELSE r

load_data(f, at) ==
    IF f = NoFile THEN Outcome(EmptyDF, <<>>, "", NoDecoding(at))
    ELSE ExceptException(LoadBody(f, at))

----------------------------------------------------------------------------
(* safe_percentage and calculate_metrics *)

\* Both arguments are cells; the result is a number in tenths (of a percent).
safe_percentage(numerator, denominator) ==
    IF (denominator.k = "num" /\ denominator.v = 0)
           \/ isna(denominator) \/ isna(numerator)
    THEN 0
    ELSE (numerator.v * 100 * 10) \div denominator.v

\* Series.sum() of number cells: a "num" cell, an infinity, or NaN (Null)
\* when infinities of both signs meet
RECURSIVE Sum(_)
Sum(cells) ==
    IF cells = <<>> THEN Num(0)
    ELSE LET h == cells[1]
             r == Sum(Tail(cells))
         IN  IF isna(h) \/ isna(r) THEN Null
             ELSE IF h.k = "inf" /\ r.k = "inf" THEN (IF h.v = r.v THEN h ELSE Null)
             ELSE IF h.k = "inf" THEN h
             ELSE IF r.k = "inf" THEN r
             ELSE Num(h.v + r.v)

\* round(x) in place of int(x): halves go up
int_Round(x) ==
    CASE x.k = "inf" -> [raised |-> "OverflowError", value |-> 0]
      [] x.k = "null" -> [raised |-> "ValueError", value |-> 0]
      [] OTHER -> [raised |-> "", value |-> (x.v + 5) \div 10]

\* int(x): [raised, value]; truncation is toward zero
int(x) ==
    CASE x.k = "inf" -> [raised |-> "OverflowError", value |-> 0]
      [] x.k = "null" -> [raised |-> "ValueError", value |-> 0]
      [] OTHER -> [raised |-> "",
                   value |-> IF x.v >= 0 THEN x.v \div 10
                             ELSE 0 - ((0 - x.v) \div 10)]

\* .count() of a column that still holds the unparsed cells
CountNotna_All(cells) == Len(cells)

CountNotna(cells) == Cardinality({i \in 1..Len(cells) : notna(cells[i])})

ZeroMetrics ==
    [total_pedidos |-> 0, pedidos_entregues |-> 0, quantidade_total |-> 0,
     pedidos_pendentes |-> 0, taxa_entrega |-> 0]

\* the conversion without dayfirst=True
ConvertEntregue_MonthFirst(t) ==
    MapCol(t, "Entregue", LAMBDA c : to_datetime(c, FALSE))

\* df["Entregue"] = pd.to_datetime(df["Entregue"], errors="coerce",
\* dayfirst=True): the assignment is to the caller's DataFrame
ConvertEntregue(t) ==
    MapCol(t, "Entregue", LAMBDA c : to_datetime(c, TRUE))

\* calculate_metrics(df): [result, df, exc], df being the caller's table
\* as the call leaves it and exc the exception raised ("" = none)
calculate_metrics(t) ==
    IF IsEmpty(t) THEN [result |-> ZeroMetrics, df |-> t, exc |-> ""]
    ELSE
      LET total_pedidos == Len(t.rows)
          t2 == IF HasCol(t, "Entregue") THEN ConvertEntregue(t) ELSE t
          pedidos_entregues ==
              IF HasCol(t, "Entregue") THEN CountNotna(Column(t2, "Entregue"))
              ELSE 0
          quantidade_total ==
              IF HasCol(t, "QuantidadeProduto")
              THEN Sum([i \in 1..Len(t2.rows) |->
                          fillna(to_numeric(t2.rows[i]["QuantidadeProduto"]), Num(0))])
              ELSE Num(0)
          pedidos_pendentes == total_pedidos - pedidos_entregues
          taxa_entrega ==
              safe_percentage(Num(pedidos_entregues * 10), Num(total_pedidos * 10))
          q == int(quantidade_total)
      IN  [result |-> [total_pedidos |-> total_pedidos,
                       pedidos_entregues |-> pedidos_entregues,
                       quantidade_total |-> q.value,
                       pedidos_pendentes |-> pedidos_pendentes,
                       taxa_entrega |-> taxa_entrega],
           df |-> t2,
           exc |-> q.raised]

----------------------------------------------------------------------------
(* Sidebar filters *)

Todos == Str(<<"T", "o", "d", "o", "s">>)

\* the options of a selectbox: "Todos" and the column's values other than
\* null and "Não informado"
Options(t, col) ==
    {Todos} \cup ({t.rows[i][col] : i \in 1..Len(t.rows)}
                      \ {Null, NaoInformado})

\* df = df[df[col] == selected] unless "Todos" is selected
SelectFilter(t, col, selected) ==
    IF selected = Todos THEN t
    ELSE Where(t, LAMBDA row : row[col] = selected)

\* the valid dates of the column
ValidDates(t, col) ==
    {t.rows[i][col].v : i \in {j \in 1..Len(t.rows) : t.rows[j][col].k = "date"}}

Min(S) == CHOOSE x \in S : \A y \in S : x <= y
Max(S) == CHOOSE x \in S : \A y \in S : x >= y

\* the same selection with the rows of no date let through
PeriodFilter_KeepNaT(t, data_inicial, data_final) ==
    Where(t, LAMBDA row : \/ row["DataPedido"].k # "date"
                          \/ /\ row["DataPedido"].v >= data_inicial
                             /\ row["DataPedido"].v <= data_final)

\* df = df[(df["DataPedido"].dt.date >= data_inicial) &
\*         (df["DataPedido"].dt.date <= data_final)]; NaT compares False
PeriodFilter(t, data_inicial, data_final) ==
    Where(t, LAMBDA row : /\ row["DataPedido"].k = "date"
                          /\ row["DataPedido"].v >= data_inicial
                          /\ row["DataPedido"].v <= data_final)

----------------------------------------------------------------------------
(* Delivered chart and export *)

COLUNAS_DESEJADAS ==
    <<"NumeroPedido", "DataPedido", "ModeloProduto", "TipoProduto",
      "QuantidadeProduto", "OrdemServico", "NumeroSerie",
      "ApelidoDoEquipamento", "StatusAtual", "PrevisaoEntrega", "Entregue">>

Bool(b) == [k |-> "bool", s |-> <<>>, v |-> IF b THEN 1 ELSE 0]

\* df["TemData"] = df["Entregue"].notna() & (df["Entregue"] != ""), or
\* False when there is no Entregue column
WithTemData(t) ==
    LET value(row) ==
            IF HasCol(t, "Entregue")
            THEN Bool(notna(row["Entregue"]) /\ row["Entregue"] # Str(<<>>))
            ELSE Bool(FALSE)
        cols == IF HasCol(t, "TemData") THEN t.cols ELSE Append(t.cols, "TemData")
    IN  [cols |-> cols,
         rows |-> [i \in 1..Len(t.rows) |->
                      [c \in Range(cols) |->
                          IF c = "TemData" THEN value(t.rows[i])
                          ELSE t.rows[i][c]]]]

\* df["TemData"].value_counts()
Contagem(t) ==
    [Entregues |-> Cardinality({i \in 1..Len(t.rows) : t.rows[i]["TemData"].v = 1}),
     NaoEntregues |-> Cardinality({i \in 1..Len(t.rows) : t.rows[i]["TemData"].v = 0})]

\* [col for col in df_export.columns if col in COLUNAS_DESEJADAS]
cols_to_export_FileOrder(t) ==
    SelectSeq(t.cols, LAMBDA col : col \in Range(COLUNAS_DESEJADAS))

\* [col for col in COLUNAS_DESEJADAS if col in df_export.columns]
cols_to_export(t) == SelectSeq(COLUNAS_DESEJADAS, LAMBDA col : HasCol(t, col))

\* df_export = df.copy()[cols_to_export]; both downloads are written from it
df_export(t) == Project(t, cols_to_export(t))

\* the days the date_input offers between data_min and data_max
SampleDays == {20240301, 20240315, 20240403}

Calendar(data_min, data_max) ==
    {data_min, data_max} \cup {d \in SampleDays : data_min < d /\ d < data_max}

\* the options of the "Estado" selectbox; without the column no selectbox
\* is shown and nothing is selected (Todos)
EstadoOptions(t) ==
    IF HasCol(t, "EstadoEntrega") THEN Options(t, "EstadoEntrega") ELSE {Todos}

StatusOptions(t) ==
    IF HasCol(t, "StatusAtual") THEN Options(t, "StatusAtual") ELSE {Todos}

\* with no valid type there is no selectbox, only a sidebar note
TipoOptions(t) ==
    IF HasCol(t, "TipoProduto") THEN Options(t, "TipoProduto") ELSE {Todos}

\* "Filtro por Período de Pedido": the tables the period step can leave,
\* each with the range applied (<<>> when the step applies none).  The
\* date_input returns the two days of the range, or a single day while the
\* user has picked only the start of a new range; unpacking that into
\* data_inicial, data_final raises ValueError
PeriodResults(t) ==
    IF ~HasCol(t, "DataPedido") THEN {[df |-> t, periodo |-> <<>>, exc |-> ""]}
    ELSE LET t2 == MapCol(t, "DataPedido", LAMBDA c : to_datetime(c, FALSE))
             datas_validas == ValidDates(t2, "DataPedido")
         IN  IF datas_validas = {}
             THEN {[df |-> t2, periodo |-> <<>>, exc |-> ""]}
             ELSE LET days == Calendar(Min(datas_validas), Max(datas_validas))
                  IN  {[df |-> PeriodFilter(t2, r[1], r[2]), periodo |-> r,
                        exc |-> ""] :
                          r \in {x \in days \X days : x[1] <= x[2]}}
                      \cup {[df |-> t2, periodo |-> <<>>, exc |-> "ValueError"]}

\* every outcome of the four sidebar filters on t, one per choice of the
\* user: the three selections, the table the period step received
\* (df_periodo), and what the period step left of it
FilterResults(t) ==
    UNION {LET t1 == SelectFilter(t, "EstadoEntrega", e)
           IN  UNION {LET t2 == SelectFilter(t1, "StatusAtual", s)
                      IN  UNION {LET t3 == SelectFilter(t2, "TipoProduto", tp)
                                 IN  {[estado_selecionado |-> e,
                                       status_selecionado |-> s,
                                       tipo_selecionado |-> tp,
                                       df_periodo |-> t3,
                                       df |-> r.df,
                                       periodo |-> r.periodo,
                                       exc |-> r.exc] : r \in PeriodResults(t3)} :
                                 tp \in TipoOptions(t2)} :
                      s \in StatusOptions(t1)} :
           e \in EstadoOptions(t)}

----------------------------------------------------------------------------
(* The uploads the model draws from *)

BoundedSeq(S, n) == UNION {[1..k -> S] : k \in 0..n}

FileCols ==
    <<"Entregue", "EstadoEntrega", "QuantidadeProduto", "DataPedido",
      "StatusAtual", "OrdemServico", "TipoProduto", "PrevisaoEntrega">>

Record(e, uf, q, dp, st, os, tp, pv) ==
    [c \in Range(FileCols) |->
        CASE c = "Entregue" -> e [] c = "EstadoEntrega" -> uf
          [] c = "QuantidadeProduto" -> q [] c = "DataPedido" -> dp
          [] c = "StatusAtual" -> st [] c = "OrdemServico" -> os
          [] c = "TipoProduto" -> tp [] c = "PrevisaoEntrega" -> pv]

S_iso == Str(<<"2", "0", "2", "4", "-", "0", "3", "-", "0", "1">>)
S_0304 == Str(<<"0", "3", "/", "0", "4", "/", "2", "0", "2", "4">>)
S_0103 == Str(<<"0", "1", "/", "0", "3", "/", "2", "0", "2", "4">>)
S_1503 == Str(<<"1", "5", "/", "0", "3", "/", "2", "0", "2", "4">>)
S_notdate == Str(<<"n", "o", "t", " ", "a", " ", "d", "a", "t", "e">>)
S_abc == Str(<<"a", "b", "c">>)
S_empty == Str(<<>>)
S_10 == Str(<<"1", "0">>)
S_5_5 == Str(<<"5", ".", "5">>)
S_neg3 == Str(<<"-", "3">>)
S_inf == Str(<<"i", "n", "f">>)
S_7 == Str(<<"7">>)
S_SP == Str(<<"S", "P">>)
S_RJ == Str(<<"R", "J">>)
S_A == Str(<<"A">>)
S_B == Str(<<"B">>)
S_T == Str(<<"T">>)

\* rows of a CSV file: text fields, "" an empty field.  The text dates of a
\* column share one format, so parsing cell by cell and parsing with one
\* format guessed for the whole column agree.
CsvPool ==
    {Record(S_0103, S_SP, S_10, S_0304, S_A, S_7, S_T, S_0304),
     Record(S_notdate, S_RJ, S_abc, S_0103, S_B, S_empty, S_empty, S_abc),
     Record(S_empty, S_empty, S_empty, S_empty, S_empty, S_7, S_T, S_empty),
     Record(S_0304, S_SP, S_5_5, S_abc, S_A, S_abc, S_T, S_1503),
     Record(S_empty, S_RJ, S_neg3, S_1503, S_empty, S_empty, S_empty, S_empty),
     Record(S_0103, S_empty, S_inf, S_0304, S_B, S_7, S_empty, S_0304)}

\* rows of a workbook: typed cells
XlsPool ==
    {Record(Date(20240301), S_SP, Num(100), Date(20240403), S_A, Num(70),
            S_T, Date(20240403)),
     Record(S_notdate, S_RJ, S_abc, S_0103, S_B, Null, Null, S_abc),
     Record(Null, Null, Null, Null, Null, Num(70), S_T, Null),
     Record(S_0304, S_SP, Num(55), S_abc, S_A, S_abc, S_T, Date(20240301)),
     Record(S_empty, S_RJ, Num(0 - 30), Date(20240315), Null, Null, Null, Null),
     Record(Date(20240301), Null, Inf, Date(20240403), S_B, Num(70), Null,
            Date(20240403))}

Without(seq, c) == SelectSeq(seq, LAMBDA x : x # c)

\* the header of a file: every column, or every column but one
Headers == {FileCols} \cup {Without(FileCols, c) : c \in Range(FileCols)}

TablesOf(pool, headers, n) ==
    {Project([cols |-> FileCols, rows |-> rows], h) :
        rows \in BoundedSeq(pool, n), h \in headers}

Name_csv == <<"p", ".", "c", "s", "v">>
Name_CSV == <<"a", ".", "b", ".", "C", "S", "V">>
Name_xlsx == <<"p", ".", "x", "l", "s", "x">>
Name_xls == <<"p", ".", "x", "l", "s">>
Name_txt == <<"p", ".", "t", "x", "t">>
Name_none == <<"c", "s", "v">>

\* bytes of the free text: "A", the two bytes of U+00E9 in UTF-8 (0xC3
\* 0xA9), and 0x81, which Windows-1252 leaves undefined
ByteAlphabet == {65, 195, 169, 129}

\* uploads that exercise the tables
TableUploads ==
    {[name |-> Name_csv, bytes |-> <<65>>, malformed |-> FALSE, table |-> t] :
        t \in TablesOf(CsvPool, Headers, MaxRows)}
    \cup
    {[name |-> Name_xlsx, bytes |-> <<>>, malformed |-> FALSE, table |-> t] :
        t \in TablesOf(XlsPool, Headers, MaxRows)}

\* uploads that exercise the decoding and the extension dispatch
DecodeUploads ==
    {[name |-> n, bytes |-> b, malformed |-> m, table |-> t] :
        n \in {Name_csv, Name_CSV},
        b \in BoundedSeq(ByteAlphabet, MaxBytes),
        m \in BOOLEAN,
        t \in TablesOf(CsvPool, {<<"StatusAtual", "Entregue">>}, 1)}
    \cup
    {[name |-> n, bytes |-> <<>>, malformed |-> m, table |-> t] :
        n \in {Name_xls, Name_xlsx, Name_txt, Name_none},
        m \in BOOLEAN,
        t \in TablesOf(XlsPool, {<<"StatusAtual", "Entregue">>}, 1)}
    \cup
    \* a file of zero bytes
    {[name |-> Name_csv, bytes |-> <<>>, malformed |-> FALSE, table |-> EmptyDF]}

Uploads == TableUploads \cup DecodeUploads

----------------------------------------------------------------------------
(* The script run *)

Init ==
    /\ pc = "upload"
    /\ uploaded_file = NoFile
    /\ pos = 0
    /\ attempts = <<>>
    /\ encoding = ""
    /\ text = <<>>
    /\ df = EmptyDF
    /\ messages = <<>>
    /\ df_in = EmptyDF
    /\ metrics = <<>>
    /\ periodo = <<>>
    /\ sidebar = <<>>
    /\ chart = <<>>
    /\ export = <<>>
    /\ fault = ""

\* uploaded_file = st.file_uploader(...): a file, or None
FileUploader ==
    /\ pc = "upload"
    /\ uploaded_file' \in Uploads \cup {NoFile}
    /\ pc' = "load"
    /\ UNCHANGED <<pos, attempts, encoding, text, df, messages, df_in, metrics,
                   periodo, sidebar, chart, export, fault>>

\* df = load_data(uploaded_file)
LoadData ==
    /\ pc = "load"
    /\ LET r == load_data(uploaded_file, pos)
       IN  /\ pos' = r.pos
           /\ attempts' = r.attempts
           /\ encoding' = r.encoding
           /\ text' = r.chars
           /\ messages' = messages \o r.errors
           /\ IF r.exc # ""
              THEN pc' = "crashed" /\ fault' = "load_data" /\ df' = df
              ELSE pc' = "check" /\ fault' = fault /\ df' = r.df
    /\ UNCHANGED <<uploaded_file, df_in, metrics, periodo, sidebar, chart, export>>

\* if df.empty: st.info(...); st.stop()
StopIfEmpty ==
    /\ pc = "check"
    /\ IsEmpty(df)
    /\ messages' = Append(messages, "Por favor, faca upload de um arquivo para comecar.")
    /\ pc' = "stopped"
    /\ UNCHANGED <<uploaded_file, pos, attempts, encoding, text, df, df_in,
                   metrics, periodo, sidebar, chart, export, fault>>

\* the sidebar: Estado, Status, Tipo de Produto, Periodo de Pedido
ApplyFilters ==
    /\ pc = "check"
    /\ ~IsEmpty(df)
    /\ \E r \in FilterResults(df) :
          /\ df' = r.df
          /\ periodo' = r.periodo
          /\ sidebar' = <<[estado_selecionado |-> r.estado_selecionado,
                           status_selecionado |-> r.status_selecionado,
                           tipo_selecionado |-> r.tipo_selecionado,
                           df |-> r.df_periodo]>>
          /\ IF r.exc # ""
             THEN pc' = "crashed" /\ fault' = "date_input"
             ELSE pc' = "metrics" /\ fault' = fault
    /\ UNCHANGED <<uploaded_file, pos, attempts, encoding, text, messages,
                   df_in, metrics, chart, export>>

\* metrics = calculate_metrics(df)
CalculateMetrics ==
    /\ pc = "metrics"
    /\ LET r == calculate_metrics(df)
       IN  /\ df_in' = df
           /\ df' = r.df
           /\ IF r.exc # ""
              THEN pc' = "crashed" /\ fault' = "calculate_metrics"
                   /\ metrics' = metrics
              ELSE pc' = "charts" /\ fault' = fault /\ metrics' = <<r.result>>
    /\ UNCHANGED <<uploaded_file, pos, attempts, encoding, text, messages,
                   periodo, sidebar, chart, export>>

\* the "Pedidos Entregues e Nao Entregues" chart
BuildCharts ==
    /\ pc = "charts"
    /\ df' = WithTemData(df)
    /\ chart' = <<Contagem(WithTemData(df))>>
    /\ pc' = "export"
    /\ UNCHANGED <<uploaded_file, pos, attempts, encoding, text, messages,
                   df_in, metrics, periodo, sidebar, export, fault>>

\* "Download dos dados filtrados": offered only for a table with rows
Export ==
    /\ pc = "export"
    /\ export' = IF ~IsEmpty(df)
                 THEN <<[csv |-> df_export(df).cols, xlsx |-> df_export(df).cols]>>
                 ELSE <<>>
    /\ messages' = IF \E i \in 1..Len(COLUNAS_DESEJADAS) :
                          ~HasCol(df, COLUNAS_DESEJADAS[i])
                   THEN Append(messages, "As seguintes colunas estao ausentes")
                   ELSE messages
    /\ pc' = "done"
    /\ UNCHANGED <<uploaded_file, pos, attempts, encoding, text, df, df_in,
                   metrics, periodo, sidebar, chart, fault>>

\* the next interaction runs the script again from the top
Rerun ==
    /\ pc \in {"done", "stopped", "crashed"}
    /\ pc' = "upload"
    /\ uploaded_file' = NoFile
    /\ pos' = 0
    /\ attempts' = <<>>
    /\ encoding' = ""
    /\ text' = <<>>
    /\ df' = EmptyDF
    /\ messages' = <<>>
    /\ df_in' = EmptyDF
    /\ metrics' = <<>>
    /\ periodo' = <<>>
    /\ sidebar' = <<>>
    /\ chart' = <<>>
    /\ export' = <<>>
    /\ fault' = ""

Next ==
    \/ FileUploader
    \/ LoadData
    \/ StopIfEmpty
    \/ ApplyFilters
    \/ CalculateMetrics
    \/ BuildCharts
    \/ Export
    \/ Rerun

Spec == Init /\ [][Next]_vars

----------------------------------------------------------------------------
(* calculate_metrics on its own: any table of the two columns it reads *)

MetricRecord(e, q) ==
    [c \in {"Entregue", "QuantidadeProduto"} |->
        IF c = "Entregue" THEN e ELSE q]

MetricPool ==
    {MetricRecord(S_iso, S_10),
     MetricRecord(S_notdate, S_abc),
     MetricRecord(Null, S_empty),
     MetricRecord(Date(20240403), Null),
     MetricRecord(NaoInformado, S_5_5),
     MetricRecord(S_iso, Inf)}

MetricHeaders ==
    {<<"Entregue", "QuantidadeProduto">>, <<"Entregue">>, <<"QuantidadeProduto">>}

MetricTables ==
    {Project([cols |-> <<"Entregue", "QuantidadeProduto">>, rows |-> rows], h) :
        rows \in BoundedSeq(MetricPool, MaxMetricRows), h \in MetricHeaders}

InitMetrics ==
    /\ pc = "metrics"
    /\ uploaded_file = NoFile
    /\ pos = 0
    /\ attempts = <<>>
    /\ encoding = ""
    /\ text = <<>>
    /\ df \in MetricTables
    /\ messages = <<>>
    /\ df_in = EmptyDF
    /\ metrics = <<>>
    /\ periodo = <<>>
    /\ sidebar = <<>>
    /\ chart = <<>>
    /\ export = <<>>
    /\ fault = ""

NextMetrics == CalculateMetrics

SpecMetrics == InitMetrics /\ [][NextMetrics]_vars

----------------------------------------------------------------------------
(* Properties *)

Csv == <<"c", "s", "v">>
Excel == {<<"x", "l", "s">>, <<"x", "l", "s", "x">>}

Uploaded == uploaded_file # NoFile
Loaded == pc \notin {"upload", "load"}

\* what the reader hands to the normalization
SourceTable ==
    IF file_extension(uploaded_file) = Csv THEN InferCsv(uploaded_file.table)
    ELSE uploaded_file.table

DateOrAbsent(c) == c.k \in {"date", "null"}
Numeric(c) == c.k \in {"num", "inf"}
Negative(c) == Numeric(c) /\ c.v < 0

\* the upload cannot be read: the CSV reader raises under every encoding
\* (no data, or a structure it rejects; Latin-1 decodes any bytes), the
\* workbook reader raises, or the extension is none of the three
Unreadable(f) ==
    LET ext == file_extension(f)
    IN  IF ext = Csv THEN f.malformed \/ Size(f) = 0
        ELSE IF ext \in Excel THEN f.malformed
        ELSE TRUE

\* C1: load_data never raises to its caller; for every uploaded file it
\* returns either the normalized table of the file (same columns, same
\* number of rows, no message) or, on any failure of decoding or parsing or
\* on an unsupported extension, an empty table with one error message shown.
C1_LoadNeverRaises ==
    /\ fault # "load_data"
    /\ (pc = "check" /\ Uploaded) =>
          IF Unreadable(uploaded_file)
          THEN df = EmptyDF /\ Len(messages) = 1
          ELSE /\ messages = <<>>
               /\ df.cols = uploaded_file.table.cols
               /\ Len(df.rows) = Len(uploaded_file.table.rows)

\* a CSV upload that failed under all four encodings came back as an empty
\* table with the error shown
C1_Witness ==
    /\ pc = "check"
    /\ Len(attempts) = 4
    /\ messages = <<"Erro ao carregar dados">>
    /\ df = EmptyDF

\* C2: the CSV attempts are made in the order UTF-8, Latin-1, ISO-8859-1,
\* Windows-1252, each from the start of the buffer; every attempt before
\* the last raised; the result used is that of the first attempt that did
\* not raise; a buffer that reads under Latin-1 but does not decode under
\* UTF-8 is loaded with Latin-1; the decode error is shown only after all
\* four attempts raised.
C2_EncodingOrder ==
    (Loaded /\ Uploaded /\ file_extension(uploaded_file) = Csv) =>
        LET n == Len(attempts)
            f == uploaded_file
        IN  /\ n \in 1..Len(encodings)
            /\ \A i \in 1..n : /\ attempts[i].encoding = encodings[i]
                               /\ attempts[i].from = 0
            /\ \A i \in 1..(n - 1) : attempts[i].raised # ""
            /\ IF attempts[n].raised = ""
               THEN /\ encoding = encodings[n]
                    /\ text = Decode(encoding, f.bytes).chars
                    /\ "Erro ao carregar dados" \notin Range(messages)
               ELSE /\ n = Len(encodings)
                    /\ encoding = ""
                    /\ "Erro ao carregar dados" \in Range(messages)
            /\ (~DecodeUtf8(f.bytes).ok /\ ~f.malformed) =>
                  encoding = "latin-1" /\ text = f.bytes
            /\ (DecodeUtf8(f.bytes).ok /\ ~f.malformed /\ Size(f) > 0) =>
                  encoding = "utf-8"

\* bytes that are not UTF-8: the first attempt raised, the pointer was
\* rewound, and the Latin-1 result was used
C2_Witness ==
    /\ pc = "check"
    /\ Len(attempts) = 2
    /\ attempts[1].raised = "UnicodeDecodeError"
    /\ attempts[2].from = 0
    /\ encoding = "latin-1"
    /\ df # EmptyDF

\* C3 as stated: after load_data every QuantidadeProduto cell is numeric,
\* not null and >= 0.
C3_QuantidadeNonNegative ==
    (pc = "check" /\ HasCol(df, "QuantidadeProduto")) =>
        \A i \in 1..Len(df.rows) :
            LET c == df.rows[i]["QuantidadeProduto"]
            IN  Numeric(c) /\ notna(c) /\ c.v >= 0

\* C3 amended: after load_data every QuantidadeProduto cell is numeric and
\* not null; it is 0 when the source cell is no number (text, empty, null)
\* and it is negative only when the source cell is a negative number, which
\* is kept as it is.
C3_QuantidadeNumeric ==
    (pc = "check" /\ HasCol(df, "QuantidadeProduto")) =>
        \A i \in 1..Len(df.rows) :
            LET c == df.rows[i]["QuantidadeProduto"]
                src == to_numeric(SourceTable.rows[i]["QuantidadeProduto"])
            IN  /\ Numeric(c) /\ notna(c)
                /\ isna(src) => c = Num(0)
                /\ Negative(c) => (Negative(src) /\ c = src)

\* a negative quantity and a non-numeric one were loaded together
C3_Witness ==
    /\ pc = "check"
    /\ HasCol(df, "QuantidadeProduto")
    /\ \E i, j \in 1..Len(df.rows) :
          /\ df.rows[i]["QuantidadeProduto"] = Num(0 - 30)
          /\ uploaded_file.table.rows[j]["QuantidadeProduto"] = S_abc
          /\ df.rows[j]["QuantidadeProduto"] = Num(0)

Delivered(t) ==
    {i \in 1..Len(t.rows) : to_datetime(t.rows[i]["Entregue"], TRUE).k = "date"}

\* C5: pedidos_entregues is the number of rows whose Entregue value parses
\* as a date (0 without the column), 0 <= pedidos_entregues <=
\* total_pedidos, and pedidos_pendentes = total_pedidos - pedidos_entregues
\* is not negative.
C5_EntreguesCount ==
    metrics # <<>> =>
        LET m == metrics[1]
        IN  /\ m.total_pedidos = Len(df_in.rows)
            /\ m.pedidos_entregues =
                  IF HasCol(df_in, "Entregue") THEN Cardinality(Delivered(df_in))
                  ELSE 0
            /\ 0 <= m.pedidos_entregues
            /\ m.pedidos_entregues <= m.total_pedidos
            /\ m.pedidos_pendentes = m.total_pedidos - m.pedidos_entregues
            /\ m.pedidos_pendentes >= 0
            /\ m.pedidos_entregues + m.pedidos_pendentes = m.total_pedidos

\* Entregue = ["2024-03-01", "not a date", None] gave one delivered, two
\* pending
C5_Witness ==
    /\ metrics # <<>>
    /\ HasCol(df_in, "Entregue")
    /\ Column(df_in, "Entregue") = <<S_iso, S_notdate, Null>>
    /\ metrics[1].pedidos_entregues = 1
    /\ metrics[1].pedidos_pendentes = 2

IndexIn(seq, x) == CHOOSE i \in 1..Len(seq) : seq[i] = x

\* C7: for a filtered table with rows, both downloads hold exactly the
\* columns of COLUNAS_DESEJADAS that the table has, in the declared order;
\* a missing column is left out and the export is still offered; TemData is
\* never exported.
C7_ExportProjection ==
    /\ (pc = "done" /\ ~IsEmpty(df)) => export # <<>>
    /\ export # <<>> =>
          LET e == export[1].csv
          IN  /\ export[1].xlsx = e
              /\ Range(e) = Range(COLUNAS_DESEJADAS) \cap Range(df.cols)
              /\ \A i, j \in 1..Len(e) :
                    i < j => IndexIn(COLUNAS_DESEJADAS, e[i])
                                 < IndexIn(COLUNAS_DESEJADAS, e[j])
              /\ "TemData" \notin Range(e)

\* an export of a table without OrdemServico, with TemData in the table
C7_Witness ==
    /\ pc = "done"
    /\ export # <<>>
    /\ ~HasCol(df, "OrdemServico")
    /\ HasCol(df, "TemData")
    /\ export[1].csv = <<"DataPedido", "TipoProduto", "QuantidadeProduto",
                         "StatusAtual", "PrevisaoEntrega", "Entregue">>

\* C8: calculate_metrics never raises, whatever the table; a table without
\* rows gives five zeros, no Entregue column gives pedidos_entregues = 0,
\* no QuantidadeProduto column gives quantidade_total = 0, an Entregue
\* column without a valid date gives pedidos_entregues = 0, and
\* taxa_entrega is 0 whenever total_pedidos is 0.
C8_MetricsNeverFail ==
    /\ fault # "calculate_metrics"
    /\ metrics # <<>> =>
          LET m == metrics[1]
          IN  /\ IsEmpty(df_in) => m = ZeroMetrics
              /\ ~HasCol(df_in, "Entregue") => m.pedidos_entregues = 0
              /\ ~HasCol(df_in, "QuantidadeProduto") => m.quantidade_total = 0
              /\ (HasCol(df_in, "Entregue") /\ Delivered(df_in) = {}) =>
                    m.pedidos_entregues = 0
              /\ m.total_pedidos = 0 => m.taxa_entrega = 0

\* the value of a cell in tenths, 0 for a cell that is no number
Tenths(c) == IF to_numeric(c).k = "num" THEN to_numeric(c).v ELSE 0

RECURSIVE TotalTenths(_)
TotalTenths(cells) ==
    IF cells = <<>> THEN 0 ELSE Tenths(Head(cells)) + TotalTenths(Tail(cells))

\* C9: quantidade_total is the sum of the QuantidadeProduto cells, a cell
\* that is no number or is null counting 0, truncated to an integer.
C9_QuantidadeTotal ==
    (metrics # <<>> /\ HasCol(df_in, "QuantidadeProduto")) =>
        LET total == TotalTenths(Column(df_in, "QuantidadeProduto"))
            q == metrics[1].quantidade_total
        IN  IF total >= 0
            THEN q * 10 <= total /\ total < (q + 1) * 10
            ELSE (q - 1) * 10 < total /\ total <= q * 10

\* ["10", "abc", "", None, "5.5"] summed to 15.5 and gave 15
C9_Witness ==
    /\ metrics # <<>>
    /\ HasCol(df_in, "QuantidadeProduto")
    /\ Column(df_in, "QuantidadeProduto") = <<S_10, S_abc, S_empty, Null, S_5_5>>
    /\ TotalTenths(Column(df_in, "QuantidadeProduto")) = 155
    /\ metrics[1].quantidade_total = 15

\* load_data returned an empty table: nothing uploaded, nothing readable,
\* or a file without rows
LoadedEmpty ==
    \/ ~Uploaded
    \/ Unreadable(uploaded_file)
    \/ Len(uploaded_file.table.cols) = 0
    \/ Len(uploaded_file.table.rows) = 0

\* C10: when load_data returns an empty table the run stops at the check:
\* it never reaches the filters, calculate_metrics, the chart or the export,
\* no exception escapes, and what is shown is the load error (if any)
\* followed by the request to upload a file.
C10_EmptyLoadHalts ==
    /\ (Loaded /\ LoadedEmpty) =>
          /\ pc \in {"check", "stopped"}
          /\ (Len(df.cols) = 0 \/ Len(df.rows) = 0)
          /\ df_in = EmptyDF /\ metrics = <<>> /\ periodo = <<>>
          /\ chart = <<>> /\ export = <<>> /\ fault = ""
    /\ pc = "stopped" =>
          /\ LoadedEmpty
          /\ Len(messages) \in 1..2
          /\ messages[Len(messages)] =
                 "Por favor, faca upload de um arquivo para comecar."

\* the run stopped after a failed load: the error, then the request
C10_Witness ==
    /\ pc = "stopped"
    /\ Uploaded
    /\ Len(messages) = 2
    /\ messages[1] = "Erro ao carregar dados"

\* the table the period step received, and the valid dates of its
\* DataPedido column
BeforePeriod == sidebar[1].df

DatasValidas ==
    IF HasCol(BeforePeriod, "DataPedido")
    THEN {c.v : c \in {x \in Range(Column(BeforePeriod, "DataPedido")) :
                          x.k = "date"}}
    ELSE {}

\* the row has a DataPedido, and it lies in the selected range
InPeriodo(row) ==
    /\ row["DataPedido"].k = "date"
    /\ periodo[1] <= row["DataPedido"].v
    /\ row["DataPedido"].v <= periodo[2]

Filtered ==
    \/ pc \in {"metrics", "charts", "export", "done"}
    \/ pc = "crashed" /\ fault = "calculate_metrics"

\* C11: once the sidebar is through, if the table that reached the period
\* step has a DataPedido column with a valid date, a range inside min..max
\* was applied and the table holds exactly the rows whose DataPedido is
\* present and inside the range, so total_pedidos and the chart count only
\* those rows; if it has no valid date (or no such column), no range was
\* applied and no row was dropped.
C11_PeriodFilter ==
    Filtered =>
        IF DatasValidas # {}
        THEN LET kept == SelectSeq(BeforePeriod.rows, InPeriodo)
             IN  /\ Len(periodo) = 2
                 /\ Min(DatasValidas) <= periodo[1]
                 /\ periodo[1] <= periodo[2]
                 /\ periodo[2] <= Max(DatasValidas)
                 /\ \A i \in 1..Len(df.rows) : InPeriodo(df.rows[i])
                 /\ Column(df, "DataPedido") =
                        [i \in 1..Len(kept) |-> kept[i]["DataPedido"]]
                 /\ pc = "metrics" => df.rows = kept
                 /\ metrics # <<>> => metrics[1].total_pedidos = Len(kept)
                 /\ chart # <<>> =>
                        chart[1].Entregues + chart[1].NaoEntregues = Len(kept)
        ELSE /\ periodo = <<>>
             /\ Len(df.rows) = Len(BeforePeriod.rows)
             /\ pc = "metrics" => df = BeforePeriod
             /\ metrics # <<>> =>
                    metrics[1].total_pedidos = Len(BeforePeriod.rows)

\* nothing selected in the three selectboxes, the period left at min..max,
\* and still the row without a DataPedido is gone: total_pedidos and the
\* chart count fewer rows than were loaded
C11_Witness ==
    /\ pc = "done"
    /\ sidebar[1].estado_selecionado = Todos
    /\ sidebar[1].status_selecionado = Todos
    /\ sidebar[1].tipo_selecionado = Todos
    /\ Len(BeforePeriod.rows) = Len(uploaded_file.table.rows)
    /\ HasCol(BeforePeriod, "DataPedido")
    /\ \E i \in 1..Len(BeforePeriod.rows) :
          BeforePeriod.rows[i]["DataPedido"] = Null
    /\ DatasValidas # {}
    /\ periodo = <<Min(DatasValidas), Max(DatasValidas)>>
    /\ metrics[1].total_pedidos < Len(uploaded_file.table.rows)
    /\ chart[1].Entregues + chart[1].NaoEntregues
           < Len(uploaded_file.table.rows)
    /\ export # <<>>

====
